---- MODULE Spec2Model ----
(***************************************************************************)
(* The shared Kafka consumer of the HRMS services                          *)
(* (services/shared/kafka/consumer.py) driven by its owners                *)
(* (NotificationConsumer, AuditConsumer), against one partition of one     *)
(* topic and one consumer group; the shared producer                       *)
(* (services/shared/kafka/producer.py) with its process-wide singleton;    *)
(* and the owners' dead-letter handlers, which use a producer of their own.*)
(*                                                                         *)
(* One asyncio task runs the pull loop; every `await` of the code is a     *)
(* state of pc, and everything between two awaits is one atomic action.    *)
(* The broker and the aiokafka client are the environment: a pull delivers *)
(* the next record or fails, a commit stores the consumed position or      *)
(* raises, the handlers return or raise.                                   *)
(***************************************************************************)
EXTENDS Integers, Sequences, FiniteSets, TLC

\* Bounds of the model.
MaxMsgs == 3
MaxBatch == 2
MaxCrashes == 1
MaxProducers == 2
MaxTasks == 2
MaxSends == 1
\* Stand-in for the interpreter's recursion limit (sys.getrecursionlimit()),
\* counted in nested _consume_loop calls.
RecursionLimit == 2
\* Owner objects a process may construct and requests a service has in flight.
MaxOwners == 2
\* start_consumer() calls a process makes.
MaxStartCalls == 2
MaxReqs == 2

\* The value published at offset o: an event, identified by its event_id
\* (unique per event, and never equal to an offset of the model).
EventAt(o) == 100 + o

NoMsg == [offset |-> -1, value |-> -1]
\* Exceptions: the class and the message of the raised object.
NoError == [cls |-> "none", msg |-> ""]
HandlerError == [cls |-> "ValueError", msg |-> "boom"]
CommitFailedError == [cls |-> "CommitFailedError", msg |-> "commit cannot be completed"]

NoUnit ==
  [offs |-> <<>>, vals |-> <<>>, result |-> "none", exc |-> NoError,
   dlq |-> <<>>, commits |-> 0, final |-> FALSE]

VARIABLES
  \* configuration of the KafkaConsumer and of the call
  topic,              \* the partition's log: topic[o + 1] is the value at offset o
  api,                \* "consume" | "consume_batch"
  batch_size,
  dlq_handler,        \* TRUE when a dlq_handler is passed
  enable_auto_commit,
  \* the broker and the aiokafka client
  committed,          \* the group's committed offset (survives the process)
  conn,               \* self._consumer: "none" | "failed" | "open" | "closing" | "closed"
  position,           \* consumed position of the client: next offset getone() returns
  \* KafkaConsumer and its owner
  started,            \* KafkaConsumer._started
  running,            \* KafkaConsumer._running
  ownerRunning,       \* NotificationConsumer.running / AuditConsumer.running
  stopPc,             \* owner stop(): "idle" | "closing" | "done"
  \* the pull-loop task
  pc,
  message,            \* loop variable `message`
  batch,              \* local `batch` of consume_batch (values)
  e,                  \* the exception bound by `except Exception as e`
  \* history (not read by any guard)
  batchOffs,          \* offsets of the values held in batch
  unit,               \* the handler invocation in progress or last finished
  calls,              \* argument lists of the handler invocations of this consume call
  runCommits,         \* commit() calls issued by this consume call
  clean,              \* no handler, DLQ or commit exception in this consume call
  runFrom,            \* position at which this consume call began (-1: none yet)
  raisedBy,           \* what escaped this consume call: "none" | "pull" | "commit" | "dlq"
  handled,            \* offsets ever passed to the handler
  lifeHandled,        \* offsets passed to the handler by this process
  dropped,            \* offsets this process pulled and discarded unhandled
  crashes,            \* process crashes so far
  pendingAtCrash,     \* offsets handled or batched but not committed at the last crash
  crashCommitted,     \* the group's committed offset at the last crash (-1: no crash)
  lifeFrom,           \* position at which this process started consuming
  depth,              \* nested _consume_loop calls of the owner's task
  \* the producers of the process
  producers,          \* KafkaProducer objects: id -> [client, started, ever, stopped]
  producer_instance,  \* the module global _producer_instance (0: None)
  made,               \* KafkaProducer objects constructed so far
  tasks,              \* the coroutines calling into producer.py
  bus,                \* records acknowledged by the broker
  win,                \* what happened since the last close_producer() activity
  \* the owner's dead-letter handler
  dlqPc,              \* "idle" | "start" | "send" | "stop" | "return"
  dlqIdx,             \* index of the event being sent in _handle_failed_batch
  dlqTopic,           \* the records on the DLQ topic
  dlqFault,           \* a transport failure hit the current handler invocation
  \* the service process around them (app/main.py, app/consumers, app/services)
  service,            \* "notification": runs a consumer | "producing": publishes events
  kafka_enabled,      \* settings.KAFKA_ENABLE_CONSUMER / settings.KAFKA_ENABLE_PRODUCER
  life,               \* lifespan(): "boot" | "startup" | "serving" | "shutdown" | "down" | "crashed"
  startupFailed,      \* the except block of the lifespan's startup ran
  consumer_instance,  \* the module global _consumer_instance (0: None)
  owners,             \* NotificationConsumer / AuditConsumer objects constructed
  startCalls,         \* start_consumer() calls made
  loopTasks,          \* tasks made by asyncio.create_task(self._consume_loop())
  reqs                \* the publishing calls in progress in a producing service

cfgVars == <<topic, api, batch_size, dlq_handler, enable_auto_commit>>
connVars == <<conn, started, running, ownerRunning, stopPc>>
loopVars == <<pc, message, batch, e, batchOffs>>
histVars == <<unit, calls, runCommits, clean, runFrom, raisedBy, handled,
              lifeHandled, dropped>>
lifeVars == <<crashes, pendingAtCrash, crashCommitted, lifeFrom>>
prodVars == <<producers, producer_instance, made, tasks, bus, win>>
dlqVars == <<dlqPc, dlqIdx, dlqTopic, dlqFault>>
svcVars == <<service, kafka_enabled, life, startupFailed, consumer_instance, owners,
             startCalls, loopTasks, reqs>>
vars == <<cfgVars, committed, position, connVars, loopVars, histVars, lifeVars,
          depth, prodVars, dlqVars, svcVars>>

Range(s) == {s[i] : i \in 1..Len(s)}

\* The logs the partition may hold: up to MaxMsgs published events.
Topics == {[i \in 1..n |-> EventAt(i - 1)] : n \in 0..MaxMsgs}

ConsumerInit ==
  /\ topic \in Topics
  /\ \E a \in {"consume", "consume_batch"}, n \in 1..MaxBatch :
       /\ api = a
       /\ batch_size = IF a = "consume" THEN 1 ELSE n
  /\ dlq_handler \in BOOLEAN
  /\ enable_auto_commit \in BOOLEAN
  /\ committed = 0
  /\ conn = "none"
  /\ position = 0
  /\ started = FALSE
  /\ running = FALSE
  /\ ownerRunning = FALSE
  /\ stopPc = "idle"
  /\ pc = "none"
  /\ message = NoMsg
  /\ batch = <<>>
  /\ e = NoError
  /\ batchOffs = <<>>
  /\ unit = NoUnit
  /\ calls = <<>>
  /\ runCommits = 0
  /\ clean = TRUE
  /\ runFrom = -1
  /\ raisedBy = "none"
  /\ handled = {}
  /\ lifeHandled = {}
  /\ dropped = {}
  /\ crashes = 0
  /\ pendingAtCrash = {}
  /\ crashCommitted = -1
  /\ lifeFrom = 0
  /\ depth = 0

\* A KafkaProducer after __init__: no client, not started.
NewProducer ==
  [client |-> "none", started |-> FALSE, ever |-> FALSE, stopped |-> FALSE]

IdleTask ==
  [op |-> "none", p |-> 0, pc |-> "idle", result |-> "none", ret |-> -1,
   own |-> FALSE,
   awaited |-> FALSE, pre |-> "none", submitted |-> FALSE, acked |-> FALSE,
   inWin |-> FALSE]

NewWin == [built |-> 0, starts |-> 0, returned |-> {}]

\* producer.py after import: no singleton, no producer object.
ProducerInit ==
  /\ producers = [p \in 1..MaxProducers |-> NewProducer]
  /\ producer_instance = 0
  /\ made = 0
  /\ tasks = [t \in 1..MaxTasks |-> IdleTask]
  /\ bus = 0
  /\ win = NewWin

\* No dead-letter handler is running, the DLQ topic is empty.
DlqIdle ==
  /\ dlqPc = "idle"
  /\ dlqIdx = 0
  /\ dlqTopic = <<>>
  /\ dlqFault = FALSE

\* A request slot of a producing service that holds no call.
NoReq ==
  [kind |-> "none", pc |-> "idle", p |-> 0, bus |-> "none", http |-> "none",
   result |-> "none"]

\* The process before its lifespan handler runs: the module globals are None.
ServiceBoot ==
  /\ life = "boot"
  /\ startupFailed = FALSE
  /\ consumer_instance = 0
  /\ owners = 0
  /\ startCalls = 0
  /\ loopTasks = 0
  /\ reqs = [r \in 1..MaxReqs |-> NoReq]

\* A service that runs a consumer (notification-service, audit-service).
ConsumerService ==
  /\ service = "notification"
  /\ ServiceBoot

Init ==
  /\ ConsumerInit
  /\ ProducerInit
  /\ DlqIdle
  /\ ConsumerService
  /\ kafka_enabled \in BOOLEAN

(***************************************************************************)
(* Helpers of the pull loop                                                *)
(***************************************************************************)

\* `if not self.enable_auto_commit:` guards every commit() of the wrapper.
CommitsManually == ~enable_auto_commit

CommitPcs == {"commit_ok", "commit_err", "fcommit"}

\* What follows the `async for` when it ends with local batch b:
\* consume returns; consume_batch flushes a non-empty batch to the handler.
AfterLoop(b) ==
  IF api = "consume_batch" /\ b # <<>> THEN "fhandler" ELSE "done"

\* Control returns to `async for` with local batch b: getone() raises
\* ConsumerStoppedError (end of iteration) once the client is closed,
\* and suspends until a record arrives otherwise.
GoNext(b) == IF conn = "open" THEN "fetch" ELSE AfterLoop(b)

\* After `await handler(...)` returned.
AfterHandlerOk(final) ==
  IF CommitsManually
    THEN (IF final THEN "fcommit" ELSE "commit_ok")
    ELSE (IF final THEN "done" ELSE "next")

AfterDlqNoCommit(final) ==
  IF final THEN "done" ELSE "next"

\* After the DLQ step of an `except Exception as e` block: the loop's blocks
\* commit, the block of the final flush does not.
AfterDlq(final) ==
  IF final THEN "done"
  ELSE IF CommitsManually THEN "commit_err" ELSE "next"

\* Entering an `except Exception as e` block.
AfterError(final) ==
  IF dlq_handler
    THEN (IF final THEN "fdlq" ELSE "dlq")
    ELSE AfterDlq(final)

BatchFullStrict(b) == Len(b) > batch_size

\* `if len(batch) >= batch_size:` after the append.
BatchFull(b) == Len(b) >= batch_size

BatchAfterNoReset(p, b) == IF p = "done" THEN <<>> ELSE b

\* The local batch after step p of a handler invocation on batch b:
\* `batch = []` ends both branches of the loop body; a return discards it.
BatchAfter(p, b) == IF p \in {"next", "done"} THEN <<>> ELSE b

BatchPrepend(b, v) == <<v>> \o b

\* `batch.append(message.value)`.
BatchAppend(b, v) == Append(b, v)

StopSignalledNever == FALSE

\* `if not self._running: break` at the head of the loop body.
StopSignalled == ~running

StartPositionLatest == Len(topic)

\* Where a started client begins to read: the group's committed offset
\* (auto_offset_reset = "earliest" when the group has none, which is offset 0).
StartPosition == committed

\* The argument of dlq_handler: message.value in consume, batch in consume_batch.
DlqPayload == IF api = "consume" THEN <<message.value>> ELSE batch

DlqCall(exc) == [vals |-> DlqPayload, exc |-> exc, ok |-> TRUE]

\* The handler is invoked on vals (the values at offsets offs).
Invoke(offs, vals, final) ==
  /\ unit' = [NoUnit EXCEPT !.offs = offs, !.vals = vals,
                            !.result = "running", !.final = final]
  /\ calls' = Append(calls, vals)
  /\ handled' = handled \cup Range(offs)
  /\ lifeHandled' = lifeHandled \cup Range(offs)
  /\ runCommits' = runCommits

\* The current handler invocation goes on to step p, its record becoming u:
\* p is a commit (commit() is called), "next" (the iteration is over, the
\* batch is emptied and the next record is asked for), a DLQ step or "done".
Goto(p, u) ==
  LET isCommit == p \in CommitPcs
      isDlq == p \in {"dlq", "fdlq"}
      u1 == IF isCommit THEN [u EXCEPT !.commits = @ + 1] ELSE u
      u2 == IF isDlq THEN [u1 EXCEPT !.dlq = Append(@, DlqCall(e'))] ELSE u1
  IN  /\ unit' = u2
      /\ runCommits' = IF isCommit THEN runCommits + 1 ELSE runCommits
      /\ pc' = IF p = "next" THEN GoNext(<<>>) ELSE p
      /\ batch' = BatchAfter(p, batch)
      /\ batchOffs' = BatchAfter(p, batchOffs)
      /\ UNCHANGED <<calls, handled, lifeHandled>>

RestartAlways == TRUE

\* `if self.running:` in the except block of _consume_loop.
RestartWanted == ownerRunning

\* An exception leaves consume/consume_batch (`raise` of the outer except);
\* the owner's _consume_loop catches it, and with its running flag set sleeps
\* and calls the loop again.
Raise(cause) ==
  /\ raisedBy' = cause
  /\ pc' = IF RestartWanted THEN "sleep" ELSE "done"
  /\ batch' = <<>>
  /\ batchOffs' = <<>>

(***************************************************************************)
(* The owner starts the consumer                                           *)
(***************************************************************************)

StartupAfterRaiseEscapes == "crashed"

\* Where the lifespan handler is after its startup try block raised:
\* `except Exception` logs and goes on to `yield`.
StartupAfterRaise == "serving"

ConsumerInstanceIgnored == TRUE

\* `if _consumer_instance is None:` of start_consumer().
ConsumerInstanceMissing == consumer_instance = 0

\* start_consumer() up to its await: with the global unset, an owner is
\* constructed and published in the global, and its start() constructs the
\* KafkaConsumer and awaits the client's start(); otherwise the global is
\* returned as it is.
StartConsumerCall ==
  IF ConsumerInstanceMissing
    THEN /\ owners < MaxOwners
         /\ owners' = owners + 1
         /\ consumer_instance' = owners + 1
         /\ life' = IF life = "boot" THEN "startup" ELSE life
    ELSE /\ UNCHANGED <<owners, consumer_instance>>
         /\ life' = IF life = "boot" THEN "serving" ELSE life

\* The startup half of the lifespan handler of a consumer service:
\* `if settings.KAFKA_ENABLE_CONSUMER:` await start_consumer(), inside a try.
ConsumerStartup ==
  /\ service = "notification"
  /\ life = "boot"
  /\ IF kafka_enabled
       THEN StartConsumerCall /\ startCalls' = startCalls + 1
       ELSE life' = "serving" /\ UNCHANGED <<owners, startCalls, consumer_instance>>
  /\ UNCHANGED <<cfgVars, prodVars, dlqVars, depth, committed, position, connVars,
                 loopVars, histVars, lifeVars, service, kafka_enabled, startupFailed,
                 loopTasks, reqs>>

\* One more start_consumer() call, while the first is suspended in start()
\* or after it returned.
StartConsumer ==
  /\ service = "notification"
  /\ kafka_enabled
  /\ life \in {"startup", "serving"}
  /\ startCalls < MaxStartCalls
  /\ startCalls' = startCalls + 1
  /\ StartConsumerCall
  /\ UNCHANGED <<cfgVars, prodVars, dlqVars, depth, committed, position, connVars,
                 loopVars, histVars, lifeVars, service, kafka_enabled, startupFailed,
                 loopTasks, reqs>>

\* NotificationConsumer.start / AuditConsumer.start with KafkaConsumer.start:
\* the client joins the group at the committed offset, the owner sets its
\* running flag and schedules _consume_loop; start_consumer() returns to the
\* lifespan handler.
OwnerStartOk ==
  /\ life = "startup"
  /\ conn = "none"
  /\ conn' = "open"
  /\ started' = TRUE
  /\ position' = StartPosition
  /\ lifeFrom' = StartPosition
  /\ ownerRunning' = TRUE
  /\ loopTasks' = loopTasks + 1
  /\ pc' = "entry"
  /\ life' = "serving"
  /\ UNCHANGED <<cfgVars, prodVars, dlqVars, depth, committed, running, stopPc, message, batch, e,
                 batchOffs, histVars, crashes, pendingAtCrash, crashCommitted,
                 service, kafka_enabled, startupFailed, consumer_instance, owners, startCalls, reqs>>

\* self._consumer.start() raises: _started stays False, start() re-raises,
\* no task is scheduled; the exception passes through start_consumer() into
\* the lifespan handler's except block.
OwnerStartFail ==
  /\ life = "startup"
  /\ conn = "none"
  /\ conn' = "failed"
  /\ startupFailed' = TRUE
  /\ life' = StartupAfterRaise
  /\ UNCHANGED <<cfgVars, prodVars, dlqVars, depth, committed, position, started, running, ownerRunning,
                 stopPc, loopVars, histVars, lifeVars,
                 service, kafka_enabled, consumer_instance, owners, startCalls, loopTasks, reqs>>

\* Entry of consume / consume_batch, from the fresh task or, after the
\* owner's 5 second sleep, from `await self._consume_loop()` inside the
\* except block of _consume_loop: one more nested call.
ConsumeEntry ==
  /\ pc \in {"entry", "sleep"}
  /\ pc = "sleep" => depth < RecursionLimit
  /\ depth' = IF pc = "sleep" THEN depth + 1 ELSE depth
  /\ IF ~started \/ conn \in {"none"}
       THEN /\ pc' = "done"
            /\ UNCHANGED <<running, runFrom, raisedBy, calls, runCommits, clean, unit>>
       ELSE /\ running' = TRUE
            /\ pc' = GoNext(<<>>)
            /\ runFrom' = position
            /\ raisedBy' = "none"
            /\ calls' = <<>>
            /\ runCommits' = 0
            /\ clean' = TRUE
            /\ unit' = NoUnit
  /\ batch' = <<>>
  /\ batchOffs' = <<>>
  /\ UNCHANGED <<cfgVars, svcVars, prodVars, dlqVars, committed, position, conn, started,
                 ownerRunning, stopPc, message, e, handled, lifeHandled, dropped,
                 lifeVars>>

\* The nested call of _consume_loop exceeds the interpreter's recursion
\* limit: RecursionError is raised inside the except blocks of all the
\* enclosing _consume_loop calls, which do not catch it; the task ends.
RecursionOverflow ==
  /\ pc = "sleep"
  /\ depth >= RecursionLimit
  /\ pc' = "dead"
  /\ UNCHANGED <<cfgVars, svcVars, prodVars, dlqVars, depth, committed, position, connVars,
                 message, batch, e, batchOffs, histVars, lifeVars>>

(***************************************************************************)
(* The loop body                                                           *)
(***************************************************************************)

\* getone() returns the record at the consumed position. The body runs up to
\* its first await: the running check, and for consume_batch the append and
\* the size check.
Receive ==
  /\ pc = "fetch"
  /\ conn \in {"open", "closing"}
  /\ position < Len(topic)
  /\ LET m == [offset |-> position, value |-> topic[position + 1]]
         b == BatchAppend(batch, m.value)
         bo == Append(batchOffs, m.offset)
     IN  /\ message' = m
         /\ position' = position + 1
         /\ IF StopSignalled
              THEN \* break
                   /\ dropped' = dropped \cup {m.offset}
                   /\ pc' = AfterLoop(batch)
                   /\ UNCHANGED <<batch, batchOffs>>
                   /\ IF AfterLoop(batch) = "fhandler"
                        THEN Invoke(batchOffs, batch, TRUE)
                        ELSE UNCHANGED <<unit, calls, handled, lifeHandled, runCommits>>
              ELSE /\ dropped' = dropped
                   /\ IF api = "consume"
                        THEN /\ pc' = "handler"
                             /\ UNCHANGED <<batch, batchOffs>>
                             /\ Invoke(<<m.offset>>, <<m.value>>, FALSE)
                        ELSE /\ batch' = b
                             /\ batchOffs' = bo
                             /\ IF BatchFull(b)
                                  THEN pc' = "handler" /\ Invoke(bo, b, FALSE)
                                  ELSE /\ pc' = GoNext(b)
                                       /\ IF GoNext(b) = "fhandler"
                                            THEN Invoke(bo, b, TRUE)
                                            ELSE UNCHANGED <<unit, calls, handled,
                                                             lifeHandled, runCommits>>
  /\ UNCHANGED <<cfgVars, svcVars, prodVars, dlqVars, depth, committed, connVars, e, clean, runFrom, raisedBy, lifeVars>>

\* The pending getone() fails with ConsumerStoppedError because the client
\* was stopped: the iteration ends.
FetchStopped ==
  /\ pc = "fetch"
  /\ conn \in {"closing", "closed"}
  /\ pc' = AfterLoop(batch)
  /\ IF AfterLoop(batch) = "fhandler"
       THEN Invoke(batchOffs, batch, TRUE)
       ELSE UNCHANGED <<unit, calls, handled, lifeHandled, runCommits>>
  /\ UNCHANGED <<cfgVars, svcVars, prodVars, dlqVars, depth, committed, position, connVars, message, batch, e,
                 batchOffs, clean, runFrom, raisedBy, dropped, lifeVars>>

\* The pending getone() raises a KafkaError: the outer except re-raises.
FetchError ==
  /\ pc = "fetch"
  /\ conn = "open"
  /\ Raise("pull")
  /\ clean' = FALSE
  /\ dropped' = dropped \cup Range(batchOffs)
  /\ UNCHANGED <<cfgVars, svcVars, prodVars, dlqVars, depth, committed, position, connVars, message, e, unit, calls,
                 runCommits, runFrom, handled, lifeHandled, lifeVars>>

\* `await handler(...)` returns.
HandlerReturn ==
  /\ pc \in {"handler", "fhandler"}
  /\ e' = e
  /\ Goto(AfterHandlerOk(unit.final), [unit EXCEPT !.result = "ok"])
  /\ UNCHANGED <<cfgVars, svcVars, prodVars, dlqVars, depth, committed, position, connVars, message, clean, runFrom,
                 raisedBy, dropped, lifeVars>>

\* `await handler(...)` raises.
HandlerRaise ==
  /\ pc \in {"handler", "fhandler"}
  /\ e' = HandlerError
  /\ clean' = FALSE
  /\ Goto(AfterError(unit.final),
          [unit EXCEPT !.result = "raised", !.exc = HandlerError])
  /\ UNCHANGED <<cfgVars, svcVars, prodVars, dlqVars, depth, committed, position, connVars, message, runFrom,
                 raisedBy, dropped, lifeVars>>

\* `await self._consumer.commit()` returns: the group's offset becomes the
\* consumed position.
CommitOk ==
  /\ pc \in CommitPcs
  /\ committed' = position
  /\ e' = e
  /\ Goto(IF pc = "fcommit" THEN "done" ELSE "next", unit)
  /\ UNCHANGED <<cfgVars, svcVars, prodVars, dlqVars, depth, position, connVars, message, clean, runFrom, raisedBy,
                 dropped, lifeVars>>

\* `await self._consumer.commit()` raises. Inside a try block (after the
\* handler returned) the exception is handled as a handler failure; in an
\* except block it leaves the loop.
CommitRaise ==
  /\ pc \in CommitPcs
  /\ clean' = FALSE
  /\ IF pc = "commit_err"
       THEN /\ Raise("commit")
            /\ e' = e
            /\ UNCHANGED <<unit, calls, runCommits, handled, lifeHandled>>
       ELSE /\ e' = CommitFailedError
            /\ Goto(AfterError(unit.final), unit)
            /\ raisedBy' = raisedBy
  /\ UNCHANGED <<cfgVars, svcVars, prodVars, dlqVars, depth, committed, position, connVars, message, runFrom,
                 dropped, lifeVars>>

\* `await dlq_handler(..., e)` returns.
DlqReturn ==
  /\ pc \in {"dlq", "fdlq"}
  /\ e' = e
  /\ Goto(AfterDlq(unit.final), unit)
  /\ UNCHANGED <<cfgVars, svcVars, prodVars, dlqVars, depth, committed, position, connVars, message, clean, runFrom,
                 raisedBy, dropped, lifeVars>>

DlqRaiseEscapes ==
  /\ pc \in {"dlq", "fdlq"}
  /\ e' = e
  /\ clean' = FALSE
  /\ Raise("dlq")
  /\ unit' = [unit EXCEPT !.dlq[Len(unit.dlq)].ok = FALSE]
  /\ UNCHANGED <<cfgVars, svcVars, prodVars, dlqVars, depth, committed, position, connVars, message, runFrom,
                 dropped, lifeVars, calls, runCommits, handled, lifeHandled>>

\* `await dlq_handler(..., e)` raises: caught and logged.
DlqRaise ==
  /\ pc \in {"dlq", "fdlq"}
  /\ e' = e
  /\ clean' = FALSE
  /\ Goto(AfterDlq(unit.final),
          [unit EXCEPT !.dlq[Len(unit.dlq)].ok = FALSE])
  /\ UNCHANGED <<cfgVars, svcVars, prodVars, dlqVars, depth, committed, position, connVars, message, runFrom,
                 raisedBy, dropped, lifeVars>>

(***************************************************************************)
(* Stop, auto-commit, crash                                                *)
(***************************************************************************)

\* The shutdown half of the lifespan handler of a consumer service, up to its
\* await: `if settings.KAFKA_ENABLE_CONSUMER:` await stop_consumer(), which
\* with the global set awaits the owner's stop() and then clears the global.
\* The owner clears its running flag and calls KafkaConsumer.stop(), which
\* returns at once when not started and otherwise clears _running and awaits
\* self._consumer.stop().
StopBegin ==
  /\ service = "notification"
  /\ life = "serving"
  /\ stopPc = "idle"
  /\ IF kafka_enabled /\ consumer_instance # 0
       THEN /\ ownerRunning' = FALSE
            /\ IF started
                 THEN /\ running' = FALSE
                      /\ conn' = "closing"
                      /\ stopPc' = "closing"
                      /\ life' = "shutdown"
                      /\ UNCHANGED consumer_instance
                 ELSE /\ UNCHANGED <<running, conn>>
                      /\ stopPc' = "done"
                      /\ consumer_instance' = 0
                      /\ life' = "down"
       ELSE /\ life' = "down"
            /\ UNCHANGED <<ownerRunning, running, conn, stopPc, consumer_instance>>
  /\ UNCHANGED <<cfgVars, prodVars, dlqVars, depth, committed, position, started, loopVars, histVars, lifeVars,
                 service, kafka_enabled, startupFailed, owners, startCalls, loopTasks, reqs>>

\* self._consumer.stop() returns: _started = False.
StopEndOk ==
  /\ stopPc = "closing"
  /\ conn' = "closed"
  /\ started' = FALSE
  /\ stopPc' = "done"
  /\ consumer_instance' = 0
  /\ life' = "down"
  /\ UNCHANGED <<cfgVars, prodVars, dlqVars, depth, committed, position, running, ownerRunning, loopVars,
                 histVars, lifeVars,
                 service, kafka_enabled, startupFailed, owners, startCalls, loopTasks, reqs>>

\* self._consumer.stop() raises: logged, _started stays True.
StopEndRaise ==
  /\ stopPc = "closing"
  /\ conn' = "closed"
  /\ stopPc' = "done"
  /\ consumer_instance' = 0
  /\ life' = "down"
  /\ UNCHANGED <<cfgVars, prodVars, dlqVars, depth, committed, position, started, running, ownerRunning,
                 loopVars, histVars, lifeVars,
                 service, kafka_enabled, startupFailed, owners, startCalls, loopTasks, reqs>>

AutoCommitAlways ==
  /\ conn \in {"open", "closing"}
  /\ committed # position
  /\ committed' = position
  /\ UNCHANGED <<cfgVars, svcVars, prodVars, dlqVars, depth, position, connVars, loopVars, histVars, lifeVars>>

\* With enable_auto_commit the client commits the consumed position in the
\* background, and once more while it is being stopped.
AutoCommit ==
  /\ enable_auto_commit
  /\ conn \in {"open", "closing"}
  /\ committed # position
  /\ committed' = position
  /\ UNCHANGED <<cfgVars, svcVars, prodVars, dlqVars, depth, position, connVars, loopVars, histVars, lifeVars>>

\* The process dies: everything in memory is lost, the topic and the group's
\* committed offset stay. A new process starts from Init's in-memory state.
Crash ==
  /\ crashes < MaxCrashes
  /\ conn \in {"open", "closing", "closed"}
  /\ crashes' = crashes + 1
  /\ pendingAtCrash' = {o \in lifeHandled \cup Range(batchOffs) : o >= committed}
  /\ crashCommitted' = committed
  /\ conn' = "none"
  /\ position' = 0
  /\ started' = FALSE
  /\ running' = FALSE
  /\ ownerRunning' = FALSE
  /\ stopPc' = "idle"
  /\ pc' = "none"
  /\ message' = NoMsg
  /\ batch' = <<>>
  /\ e' = NoError
  /\ batchOffs' = <<>>
  /\ unit' = NoUnit
  /\ calls' = <<>>
  /\ runCommits' = 0
  /\ clean' = TRUE
  /\ runFrom' = -1
  /\ raisedBy' = "none"
  /\ lifeHandled' = {}
  /\ dropped' = {}
  /\ lifeFrom' = 0
  /\ depth' = 0
  /\ life' = "boot"
  /\ startupFailed' = FALSE
  /\ consumer_instance' = 0
  /\ owners' = 0
  /\ startCalls' = 0
  /\ loopTasks' = 0
  /\ UNCHANGED <<cfgVars, prodVars, dlqVars, committed, handled, service, kafka_enabled,
                 reqs>>

Next ==
  \/ ConsumerStartup
  \/ OwnerStartOk
  \/ OwnerStartFail
  \/ ConsumeEntry
  \/ RecursionOverflow
  \/ Receive
  \/ FetchStopped
  \/ FetchError
  \/ HandlerReturn
  \/ HandlerRaise
  \/ CommitOk
  \/ CommitRaise
  \/ DlqReturn
  \/ DlqRaise
  \/ StopBegin
  \/ StopEndOk
  \/ StopEndRaise
  \/ AutoCommit
  \/ Crash

Spec == Init /\ [][Next]_vars

TypeOK ==
  /\ pc \in {"none", "entry", "fetch", "handler", "commit_ok", "dlq", "commit_err",
             "fhandler", "fcommit", "fdlq", "sleep", "done", "dead"}
  /\ conn \in {"none", "failed", "open", "closing", "closed"}
  /\ committed \in 0..Len(topic)
  /\ position \in 0..Len(topic)
  /\ Len(batch) = Len(batchOffs)
  /\ \A i \in 1..Len(batch) : batch[i] = topic[batchOffs[i] + 1]


(***************************************************************************)
(* The producer (producer.py)                                              *)
(*                                                                         *)
(* Coroutines (tasks) call start, stop, send_event, send_raw, get_producer *)
(* and close_producer; a call runs atomically up to its next await. The    *)
(* aiokafka client of a producer is "none" (self._producer is None),       *)
(* "connecting", "open", "closing", "closed" or "failed".                  *)
(***************************************************************************)

consVars == <<cfgVars, committed, position, connVars, loopVars, histVars, lifeVars,
              depth>>

\* Task t is not inside a call. A new call is given to the first such task
\* (which coroutine makes the call makes no difference to producer.py).
Idle(t) == tasks[t].pc \in {"idle", "returned"}
Free(t) == Idle(t) /\ \A u \in 1..(t - 1) : ~Idle(u)

\* What is kept of a call that returned is dropped at the next step.
Sweep(ts) == [u \in 1..MaxTasks |-> IF ts[u].pc = "returned" THEN IdleTask ELSE ts[u]]

Call(op, p) == [IdleTask EXCEPT !.op = op, !.p = p]

Returned(c, r) == [c EXCEPT !.pc = "returned", !.result = r]

\* A close_producer() call is suspended in stop().
Closing == \E t \in 1..MaxTasks : tasks[t].op = "close_producer" /\ tasks[t].pc = "stop_wait"

\* What the caller knows of producer p when it calls send_event / send_raw.
PreOf(p) ==
  IF ~producers[p].ever THEN "never"
  ELSE IF producers[p].stopped /\ ~producers[p].started THEN "stopped"
  ELSE IF producers[p].stopped THEN "stop_failed"
  ELSE "started"

\* KafkaProducer(...) called directly, as the dead-letter handlers do.
Construct ==
  /\ made < MaxProducers
  /\ made' = made + 1
  /\ tasks' = Sweep(tasks)
  /\ UNCHANGED <<producers, producer_instance, bus, win, consVars, dlqVars, svcVars>>

StartGuardNever(p) == FALSE

\* `if self._started:` of start().
StartGuard(p) == producers[p].started

\* start() on producer p up to `await self._producer.start()`: a new client
\* replaces self._producer; a start() of p already suspended awaits a client
\* that is no longer self._producer.
StartCall(t, p, op) ==
  /\ producers' = [producers EXCEPT ![p].client = "connecting"]
  /\ tasks' = [u \in 1..MaxTasks |->
                 IF u = t THEN [Call(op, p) EXCEPT !.pc = "start_wait", !.own = TRUE,
                                                   !.awaited = TRUE,
                                                   !.inWin = (op = "get_producer" /\ ~Closing)]
                 ELSE IF tasks[u].pc = "start_wait" /\ tasks[u].p = p
                        THEN [tasks[u] EXCEPT !.own = FALSE]
                        ELSE Sweep(tasks)[u]]

ProducerStart ==
  \E t \in 1..MaxTasks, p \in 1..made :
    /\ Free(t)
    /\ IF StartGuard(p)
         THEN /\ tasks' = [Sweep(tasks) EXCEPT ![t] = Returned(Call("start", p), "ok")]
              /\ UNCHANGED producers
         ELSE StartCall(t, p, "start")
    /\ UNCHANGED <<producer_instance, made, bus, win, consVars, dlqVars, svcVars>>

\* `return _producer_instance` of get_producer, by a task c.
GetReturn(c) == [Returned(c, "ok") EXCEPT !.ret = producer_instance]

WinReturn(c) ==
  IF c.inWin THEN [win EXCEPT !.returned = @ \cup {producer_instance}] ELSE win

\* `await self._producer.start()` returns: _started = True.
ProducerStartOk ==
  \E t \in 1..MaxTasks :
    /\ tasks[t].pc = "start_wait"
    /\ LET c == tasks[t]
       IN  /\ producers' = [producers EXCEPT
                              ![c.p].started = TRUE, ![c.p].ever = TRUE,
                              ![c.p].stopped = FALSE,
                              ![c.p].client = IF c.own THEN "open" ELSE @]
           /\ IF c.op = "get_producer"
                THEN /\ tasks' = [Sweep(tasks) EXCEPT ![t] = GetReturn(c)]
                     /\ win' = WinReturn(c)
                ELSE /\ tasks' = [Sweep(tasks) EXCEPT ![t] = Returned(c, "ok")]
                     /\ win' = win
    /\ UNCHANGED <<producer_instance, made, bus, consVars, dlqVars, svcVars>>

\* `await self._producer.start()` raises: logged and re-raised.
ProducerStartRaise ==
  \E t \in 1..MaxTasks :
    /\ tasks[t].pc = "start_wait"
    /\ LET c == tasks[t]
       IN  /\ producers' = [producers EXCEPT
                              ![c.p].client = IF c.own THEN "failed" ELSE @]
           /\ tasks' = [Sweep(tasks) EXCEPT ![t] = Returned(c, "raised")]
    /\ UNCHANGED <<producer_instance, made, bus, win, consVars, dlqVars, svcVars>>

StopGuardNoClient(p) == producers[p].client = "none"

\* `if not self._started or not self._producer:` of stop().
StopGuard(p) == ~producers[p].started \/ producers[p].client = "none"

\* The tasks after a close_producer() step: the calls in flight began before it.
OutOfWin(ts) == [u \in 1..MaxTasks |-> [ts[u] EXCEPT !.inWin = FALSE]]

ProducerStop ==
  \E t \in 1..MaxTasks, p \in 1..made :
    /\ Free(t)
    /\ IF StopGuard(p)
         THEN /\ tasks' = [Sweep(tasks) EXCEPT ![t] = Returned(Call("stop", p), "ok")]
              /\ UNCHANGED producers
         ELSE /\ tasks' = [Sweep(tasks) EXCEPT ![t] = [Call("stop", p) EXCEPT
                                                  !.pc = "stop_wait", !.awaited = TRUE]]
              /\ producers' = [producers EXCEPT ![p].client = "closing"]
    /\ UNCHANGED <<producer_instance, made, bus, win, consVars, dlqVars, svcVars>>

\* The end of `await self._producer.stop()` for task t, which leaves the
\* producers as ps: stop() returns; close_producer then clears the global.
StopDone(t, ps) ==
  LET c == tasks[t]
  IN  /\ producers' = ps
      /\ IF c.op = "close_producer"
           THEN /\ producer_instance' = 0
                /\ tasks' = OutOfWin([Sweep(tasks) EXCEPT ![t] = Returned(c, "ok")])
                /\ win' = NewWin
           ELSE /\ tasks' = [Sweep(tasks) EXCEPT ![t] = Returned(c, "ok")]
                /\ UNCHANGED <<producer_instance, win>>

\* `await self._producer.stop()` returns: _started = False.
ProducerStopOk ==
  \E t \in 1..MaxTasks :
    /\ tasks[t].pc = "stop_wait"
    /\ StopDone(t, [producers EXCEPT ![tasks[t].p].client = "closed",
                                     ![tasks[t].p].started = FALSE,
                                     ![tasks[t].p].stopped = TRUE])
    /\ UNCHANGED <<made, bus, consVars, dlqVars, svcVars>>

\* `await self._producer.stop()` raises: logged, _started stays True; the
\* client was marked closed when its stop() began.
ProducerStopRaise ==
  \E t \in 1..MaxTasks :
    /\ tasks[t].pc = "stop_wait"
    /\ StopDone(t, [producers EXCEPT ![tasks[t].p].client = "closed",
                                     ![tasks[t].p].stopped = TRUE])
    /\ UNCHANGED <<made, bus, consVars, dlqVars, svcVars>>

SendGuardAlways(p) == TRUE

\* `if not self._started or not self._producer: return False`, negated.
SendGuard(p) == producers[p].started /\ producers[p].client # "none"

SendFailureRaises == "raised"

\* What send_event / send_raw give their caller from an except block
\* (results are written as the caller sees them: "True", "False", "raised").
SendFailureResult == "False"

InFlight == Cardinality({t \in 1..MaxTasks : tasks[t].pc \in {"submit", "ack"}})

\* send_event / send_raw up to `await self._producer.send(...)`, which raises
\* at once on a client that is absent, closing, closed or failed.
SendCall ==
  \E t \in 1..MaxTasks, p \in 1..made, op \in {"send_event", "send_raw"} :
    /\ Free(t)
    /\ SendGuard(p) => bus + InFlight < MaxSends
    /\ LET c == [Call(op, p) EXCEPT !.pre = PreOf(p)]
       IN  tasks' = [Sweep(tasks) EXCEPT ![t] =
                       IF ~SendGuard(p) THEN Returned(c, "False")
                       ELSE IF producers[p].client \in {"open", "connecting"}
                         THEN [c EXCEPT !.pc = "submit", !.awaited = TRUE]
                         ELSE Returned([c EXCEPT !.submitted = TRUE], SendFailureResult)]
    /\ UNCHANGED <<producers, producer_instance, made, bus, win, consVars, dlqVars, svcVars>>

\* `await self._producer.send(...)` returns the future of the record.
SendSubmitOk ==
  \E t \in 1..MaxTasks :
    /\ tasks[t].pc = "submit"
    /\ tasks' = [Sweep(tasks) EXCEPT ![t].pc = "ack", ![t].submitted = TRUE]
    /\ UNCHANGED <<producers, producer_instance, made, bus, win, consVars, dlqVars, svcVars>>

\* model_dump or `await self._producer.send(...)` raises.
SendSubmitRaise ==
  \E t \in 1..MaxTasks :
    /\ tasks[t].pc = "submit"
    /\ tasks' = [Sweep(tasks) EXCEPT ![t] =
                   Returned([tasks[t] EXCEPT !.submitted = TRUE], SendFailureResult)]
    /\ UNCHANGED <<producers, producer_instance, made, bus, win, consVars, dlqVars, svcVars>>

\* `await future` returns the record's metadata: the broker acknowledged.
SendAcked ==
  \E t \in 1..MaxTasks :
    /\ tasks[t].pc = "ack"
    /\ bus' = bus + 1
    /\ tasks' = [Sweep(tasks) EXCEPT ![t] = Returned([tasks[t] EXCEPT !.acked = TRUE], "True")]
    /\ UNCHANGED <<producers, producer_instance, made, win, consVars, dlqVars, svcVars>>

\* `await future` raises.
SendAckRaise ==
  \E t \in 1..MaxTasks :
    /\ tasks[t].pc = "ack"
    /\ tasks' = [Sweep(tasks) EXCEPT ![t] = Returned(tasks[t], SendFailureResult)]
    /\ UNCHANGED <<producers, producer_instance, made, bus, win, consVars, dlqVars, svcVars>>

InstanceAssignedAfterStart(id) == 0

\* _producer_instance while get_producer awaits start(): the assignment
\* precedes the await.
InstanceDuringStart(id) == id

InstanceMissingOrUnstarted ==
  producer_instance = 0 \/ ~producers[producer_instance].started

\* `if _producer_instance is None:` of get_producer().
InstanceMissing == producer_instance = 0

\* get_producer(): returns the global, creating and starting it when None.
GetProducer ==
  \E t \in 1..MaxTasks :
    /\ Free(t)
    /\ IF InstanceMissing
         THEN /\ made < MaxProducers
              /\ made' = made + 1
              /\ producer_instance' = InstanceDuringStart(made + 1)
              /\ StartCall(t, made + 1, "get_producer")
              /\ win' = IF Closing THEN win
                        ELSE [win EXCEPT !.built = @ + 1, !.starts = @ + 1]
         ELSE /\ LET c == [Call("get_producer", producer_instance)
                             EXCEPT !.inWin = ~Closing]
                 IN  /\ tasks' = [Sweep(tasks) EXCEPT ![t] = GetReturn(c)]
                     /\ win' = WinReturn(c)
              /\ UNCHANGED <<producers, producer_instance, made>>
    /\ UNCHANGED <<bus, consVars, dlqVars, svcVars>>

\* close_producer(): stops the global when set, then clears it.
CloseProducer ==
  \E t \in 1..MaxTasks :
    /\ Free(t)
    /\ IF producer_instance = 0
         THEN /\ tasks' = [Sweep(tasks) EXCEPT ![t] = Returned(Call("close_producer", 0), "ok")]
              /\ UNCHANGED <<producers, producer_instance, win>>
         ELSE LET p == producer_instance
                  c == Call("close_producer", p)
              IN  /\ win' = NewWin
                  /\ IF StopGuard(p)
                       THEN /\ tasks' = OutOfWin([Sweep(tasks) EXCEPT ![t] = Returned(c, "ok")])
                            /\ producer_instance' = 0
                            /\ UNCHANGED producers
                       ELSE /\ tasks' = OutOfWin([Sweep(tasks) EXCEPT ![t] =
                                                    [c EXCEPT !.pc = "stop_wait",
                                                              !.awaited = TRUE]])
                            /\ producers' = [producers EXCEPT ![p].client = "closing"]
                            /\ UNCHANGED producer_instance
    /\ UNCHANGED <<made, bus, consVars, dlqVars, svcVars>>

\* The producer alone: the consumer is not started and holds an empty topic.
ProducerSpecInit ==
  /\ Init
  /\ kafka_enabled
  /\ topic = <<>>
  /\ api = "consume"
  /\ ~dlq_handler
  /\ ~enable_auto_commit

ProducerNext ==
  \/ Construct
  \/ ProducerStart
  \/ ProducerStartOk
  \/ ProducerStartRaise
  \/ ProducerStop
  \/ ProducerStopOk
  \/ ProducerStopRaise
  \/ SendCall
  \/ SendSubmitOk
  \/ SendSubmitRaise
  \/ SendAcked
  \/ SendAckRaise
  \/ GetProducer
  \/ CloseProducer

ProducerSpec == ProducerSpecInit /\ [][ProducerNext]_vars

ProducerTypeOK ==
  /\ producer_instance \in 0..made
  /\ made \in 0..MaxProducers
  /\ bus \in 0..MaxSends
  /\ \A p \in 1..MaxProducers :
       /\ producers[p].client \in {"none", "connecting", "open", "closing", "closed", "failed"}
       /\ p > made => producers[p] = NewProducer
  /\ \A t \in 1..MaxTasks :
       tasks[t].pc \in {"idle", "start_wait", "stop_wait", "submit", "ack", "returned"}


(***************************************************************************)
(* The owners' dead-letter handlers                                        *)
(* (NotificationConsumer._handle_failed_event on one event,                *)
(* AuditConsumer._handle_failed_batch on a batch), passed as dlq_handler.  *)
(***************************************************************************)

\* str(error) and type(error).__name__.
ErrorText(exc) == exc.msg
ErrorTypeName(exc) == exc.cls

\* The topic the handler of the service writes to.
DlqTopicName == IF api = "consume" THEN "notification-dlq" ELSE "audit-dlq"

\* The value handed to send_raw for event ev and error exc.
DlqRecord(ev, exc) ==
  [topic |-> DlqTopicName, original_event |-> ev, error |-> ErrorText(exc),
   error_type |-> ErrorTypeName(exc)]

\* The events the handler was called with.
DlqEvents == unit.dlq[Len(unit.dlq)].vals

\* dlq_producer: a KafkaProducer constructed by the handler itself.
DlqProducerId == made + 1

DlqAfterSendsReturn == "return"

\* After the last send_raw: `await dlq_producer.stop()`.
DlqAfterSends == "stop"

\* The handler after the send_raw of event number i.
DlqAdvance(i) ==
  IF i < Len(DlqEvents)
    THEN dlqIdx' = i + 1 /\ dlqPc' = "send"
    ELSE dlqIdx' = i /\ dlqPc' = DlqAfterSends

\* The handler is entered: it constructs dlq_producer and awaits its start().
HandleFailedEntry ==
  /\ pc \in {"dlq", "fdlq"}
  /\ dlqPc = "idle"
  /\ producers' = [producers EXCEPT
                     ![DlqProducerId] = [NewProducer EXCEPT !.client = "connecting"]]
  /\ dlqPc' = "start"
  /\ dlqIdx' = 0
  /\ dlqFault' = FALSE
  /\ UNCHANGED <<consVars, svcVars, producer_instance, made, tasks, bus, win, dlqTopic>>

\* dlq_producer.start() returns.
DlqStartOk ==
  /\ dlqPc = "start"
  /\ producers' = [producers EXCEPT ![DlqProducerId].client = "open",
                                    ![DlqProducerId].started = TRUE,
                                    ![DlqProducerId].ever = TRUE]
  /\ dlqPc' = "send"
  /\ dlqIdx' = 1
  /\ UNCHANGED <<consVars, svcVars, producer_instance, made, tasks, bus, win, dlqTopic, dlqFault>>

\* dlq_producer.start() raises: the handler's except block logs it.
DlqStartRaise ==
  /\ dlqPc = "start"
  /\ producers' = [producers EXCEPT ![DlqProducerId].client = "failed"]
  /\ dlqPc' = "return"
  /\ dlqFault' = TRUE
  /\ UNCHANGED <<consVars, svcVars, producer_instance, made, tasks, bus, win, dlqIdx, dlqTopic>>

\* send_raw of the current event is acknowledged: the record is on the DLQ topic.
DlqSendOk ==
  /\ dlqPc = "send"
  /\ dlqTopic' = Append(dlqTopic, DlqRecord(DlqEvents[dlqIdx], e))
  /\ DlqAdvance(dlqIdx)
  /\ UNCHANGED <<consVars, svcVars, prodVars, dlqFault>>

\* send_raw of the current event fails: it returns False, which the handler
\* does not look at.
DlqSendFail ==
  /\ dlqPc = "send"
  /\ dlqFault' = TRUE
  /\ DlqAdvance(dlqIdx)
  /\ UNCHANGED <<consVars, svcVars, prodVars, dlqTopic>>

\* dlq_producer.stop(): the client's stop() returns.
DlqStopOk ==
  /\ dlqPc = "stop"
  /\ producers' = [producers EXCEPT ![DlqProducerId].client = "closed",
                                    ![DlqProducerId].started = FALSE,
                                    ![DlqProducerId].stopped = TRUE]
  /\ dlqPc' = "return"
  /\ UNCHANGED <<consVars, svcVars, producer_instance, made, tasks, bus, win, dlqIdx, dlqTopic,
                 dlqFault>>

\* dlq_producer.stop(): the client's stop() raises, which stop() logs.
DlqStopRaise ==
  /\ dlqPc = "stop"
  /\ producers' = [producers EXCEPT ![DlqProducerId].client = "closed",
                                    ![DlqProducerId].stopped = TRUE]
  /\ dlqPc' = "return"
  /\ UNCHANGED <<consVars, svcVars, producer_instance, made, tasks, bus, win, dlqIdx, dlqTopic,
                 dlqFault>>

\* The handler returns to consume / consume_batch; dlq_producer goes out of scope.
HandleFailedReturn ==
  /\ dlqPc = "return"
  /\ pc \in {"dlq", "fdlq"}
  /\ e' = e
  /\ Goto(AfterDlq(unit.final), unit)
  /\ dlqPc' = "idle"
  /\ producers' = [producers EXCEPT ![DlqProducerId] = NewProducer]
  /\ UNCHANGED <<cfgVars, svcVars, committed, position, connVars, message, clean, runFrom,
                 raisedBy, dropped, lifeVars, depth, producer_instance, made, tasks,
                 bus, win, dlqIdx, dlqTopic, dlqFault>>

\* The process holds a started singleton producer (get_producer returned).
SingletonStarted ==
  /\ producers = [p \in 1..MaxProducers |->
                    IF p = 1 THEN [client |-> "open", started |-> TRUE,
                                   ever |-> TRUE, stopped |-> FALSE]
                             ELSE NewProducer]
  /\ producer_instance = 1
  /\ made = 1
  /\ tasks = [t \in 1..MaxTasks |-> IdleTask]
  /\ bus = 0
  /\ win = [NewWin EXCEPT !.built = 1, !.starts = 1]

\* A service as the owners configure it: manual commits, the dead-letter
\* handler registered, with or without a singleton producer in the process.
DlqSpecInit ==
  /\ ConsumerInit
  /\ ConsumerService
  /\ kafka_enabled = TRUE
  /\ dlq_handler
  /\ ~enable_auto_commit
  /\ ProducerInit \/ SingletonStarted
  /\ DlqIdle

\* One life of the process.
DlqNext ==
  \/ ConsumerStartup
  \/ OwnerStartOk
  \/ OwnerStartFail
  \/ ConsumeEntry
  \/ RecursionOverflow
  \/ Receive
  \/ FetchStopped
  \/ FetchError
  \/ HandlerReturn
  \/ HandlerRaise
  \/ CommitOk
  \/ CommitRaise
  \/ HandleFailedEntry
  \/ DlqStartOk
  \/ DlqStartRaise
  \/ DlqSendOk
  \/ DlqSendFail
  \/ DlqStopOk
  \/ DlqStopRaise
  \/ HandleFailedReturn
  \/ StopBegin
  \/ StopEndOk
  \/ StopEndRaise

DlqSpec == DlqSpecInit /\ [][DlqNext]_vars

(***************************************************************************)
(* The service process around the bus clients                              *)
(*                                                                         *)
(* A producing service (attendance-, leave-, employee-, compliance- and    *)
(* user-management-service) starts the singleton producer in its lifespan  *)
(* handler, serves requests that call a publish helper or an integration   *)
(* client, and closes the producer at shutdown. A request runs atomically  *)
(* up to its next await. `from shared.kafka import ...` inside a try block  *)
(* and the event factories are steps that may raise.                       *)
(***************************************************************************)

\* The kinds of publishing call: a publish_*_event helper,
\* AuditServiceClient.log_action, NotificationServiceClient.send_email.
ReqKinds == {"publish", "log_action", "send_email"}

\* Slot r holds no call in progress; a new call takes the first such slot.
IdleReq(r) == reqs[r].pc \in {"idle", "returned"}
FreeReq(r) == IdleReq(r) /\ \A u \in 1..(r - 1) : ~IdleReq(u)

\* What is kept of a call that returned is dropped at the next step.
SweepReqs(rs) == [u \in 1..MaxReqs |-> IF rs[u].pc = "returned" THEN NoReq ELSE rs[u]]

HelperFailureRaises == "raised"

\* What a publish helper gives its caller when the bus path did not succeed:
\* every such branch, the except block included, is `return False`.
HelperFailure == "False"

NeedsFallbackAlways(outcome) == TRUE

\* log_action / send_email reach the HTTP request unless the bus path
\* executed `return True`.
NeedsFallback(outcome) == outcome # "True"

\* The bus path of call c ends with outcome: "True" / "False" (what
\* send_event returned), "disabled", "no_event_type", "unknown_type",
\* "not_started", or "raised" (an exception reached the except block).
\* A helper returns; an integration client returns True or opens an HTTP
\* client and awaits its post().
BusEnd(c, outcome) ==
  IF c.kind = "publish"
    THEN [c EXCEPT !.pc = "returned", !.bus = outcome,
                   !.result = IF outcome = "True" THEN "True" ELSE HelperFailure]
    ELSE IF NeedsFallback(outcome)
      THEN [c EXCEPT !.pc = "http", !.bus = outcome, !.http = "pending"]
      ELSE [c EXCEPT !.pc = "returned", !.bus = outcome, !.result = "True"]

\* Call c after get_producer() returned producer p (0: None), whose _started
\* is st and whose client is cl: the is_started test, the event factory
\* (built: it returned), then send_event up to `await self._producer.send`.
AfterGetProducer(c, p, st, cl, built) ==
  IF p = 0 \/ ~st THEN BusEnd(c, "not_started")
  ELSE IF ~built THEN BusEnd(c, "raised")
  ELSE IF cl = "none" THEN BusEnd(c, "False")
  ELSE IF cl \in {"open", "connecting"} THEN [c EXCEPT !.pc = "submit", !.p = p]
  ELSE BusEnd(c, SendFailureResult)

\* get_producer() creates the singleton: the object is constructed, published
\* in the global and its start() awaits the client's start().
CreateSingleton ==
  /\ made < MaxProducers
  /\ made' = made + 1
  /\ producer_instance' = InstanceDuringStart(made + 1)
  /\ producers' = [producers EXCEPT ![made + 1].client = "connecting"]

\* The startup half of the lifespan handler of a producing service, up to
\* its await: `if settings.KAFKA_ENABLE_PRODUCER:` import and await
\* get_producer(), inside a try.
ProducerStartup ==
  /\ service = "producing"
  /\ life = "boot"
  /\ \E imported \in BOOLEAN :
       IF ~kafka_enabled
         THEN /\ life' = "serving"
              /\ UNCHANGED <<startupFailed, producers, producer_instance, made>>
         ELSE IF ~imported
           THEN /\ life' = StartupAfterRaise
                /\ startupFailed' = TRUE
                /\ UNCHANGED <<producers, producer_instance, made>>
           ELSE IF InstanceMissing
             THEN /\ CreateSingleton
                  /\ life' = "startup"
                  /\ UNCHANGED startupFailed
             ELSE /\ life' = "serving"
                  /\ UNCHANGED <<startupFailed, producers, producer_instance, made>>
  /\ UNCHANGED <<consVars, dlqVars, tasks, bus, win, service, kafka_enabled,
                 consumer_instance, owners, startCalls, loopTasks, reqs>>

\* The start() awaited by the lifespan's get_producer() returns.
ProducerStartupOk ==
  /\ service = "producing"
  /\ life = "startup"
  /\ LET p == producer_instance
     IN  producers' = [producers EXCEPT ![p].client = "open", ![p].started = TRUE,
                                     ![p].ever = TRUE]
  /\ life' = "serving"
  /\ reqs' = SweepReqs(reqs)
  /\ UNCHANGED <<consVars, dlqVars, producer_instance, made, tasks, bus, win, service,
                 kafka_enabled, startupFailed, consumer_instance, owners, startCalls, loopTasks>>

\* It raises: start() re-raises, get_producer() does not catch, the lifespan's
\* except block logs.
ProducerStartupRaise ==
  /\ service = "producing"
  /\ life = "startup"
  /\ LET p == producer_instance
     IN  producers' = [producers EXCEPT ![p].client = "failed"]
  /\ life' = StartupAfterRaise
  /\ startupFailed' = TRUE
  /\ reqs' = SweepReqs(reqs)
  /\ UNCHANGED <<consVars, dlqVars, producer_instance, made, tasks, bus, win, service,
                 kafka_enabled, consumer_instance, owners, startCalls, loopTasks>>

\* A request handler calls a publish helper or an integration client; the
\* call runs up to its first await. known: the helper's event-type string is
\* in its map / send_email was given an event_type.
Request ==
  \E r \in 1..MaxReqs, kind \in ReqKinds, known \in BOOLEAN,
     fault \in {"none", "import", "factory"} :
    /\ service = "producing"
    /\ life = "serving"
    /\ FreeReq(r)
    /\ LET c == [NoReq EXCEPT !.kind = kind]
           early == IF ~kafka_enabled THEN "disabled"
                    ELSE IF kind = "send_email" /\ ~known THEN "no_event_type"
                    ELSE IF fault = "import" THEN "raised"
                    ELSE IF kind = "publish" /\ ~known THEN "unknown_type"
                    ELSE "none"
       IN  IF early # "none"
             THEN /\ reqs' = [SweepReqs(reqs) EXCEPT ![r] = BusEnd(c, early)]
                  /\ UNCHANGED <<producers, producer_instance, made>>
             ELSE IF InstanceMissing
               THEN /\ CreateSingleton
                    /\ reqs' = [SweepReqs(reqs) EXCEPT
                                  ![r] = [c EXCEPT !.pc = "start_wait", !.p = made + 1]]
               ELSE /\ reqs' = [SweepReqs(reqs) EXCEPT ![r] =
                                  AfterGetProducer(c, producer_instance,
                                                   producers[producer_instance].started,
                                                   producers[producer_instance].client,
                                                   fault # "factory")]
                    /\ UNCHANGED <<producers, producer_instance, made>>
    /\ UNCHANGED <<consVars, dlqVars, tasks, bus, win, service, kafka_enabled, life,
                   startupFailed, consumer_instance, owners, startCalls, loopTasks>>

\* The start() awaited by a call's get_producer() returns: _started = True,
\* get_producer() returns the global as it is now, and the call goes on.
RequestStartOk ==
  \E r \in 1..MaxReqs, built \in BOOLEAN :
    /\ reqs[r].pc = "start_wait"
    /\ LET p == reqs[r].p
           g == producer_instance
       IN  /\ producers' = [producers EXCEPT ![p].client = "open", ![p].started = TRUE,
                                             ![p].ever = TRUE]
           /\ reqs' = [SweepReqs(reqs) EXCEPT ![r] =
                         AfterGetProducer(reqs[r], g,
                                          IF g = 0 THEN FALSE ELSE producers'[g].started,
                                          IF g = 0 THEN "none" ELSE producers'[g].client,
                                          built)]
    /\ UNCHANGED <<consVars, dlqVars, producer_instance, made, tasks, bus, win, service,
                   kafka_enabled, life, startupFailed, consumer_instance, owners, startCalls,
                   loopTasks>>

\* It raises: the exception leaves get_producer() for the call's except block.
RequestStartRaise ==
  \E r \in 1..MaxReqs :
    /\ reqs[r].pc = "start_wait"
    /\ producers' = [producers EXCEPT ![reqs[r].p].client = "failed"]
    /\ reqs' = [SweepReqs(reqs) EXCEPT ![r] = BusEnd(reqs[r], "raised")]
    /\ UNCHANGED <<consVars, dlqVars, producer_instance, made, tasks, bus, win, service,
                   kafka_enabled, life, startupFailed, consumer_instance, owners, startCalls,
                   loopTasks>>

\* send_event of a call: `await self._producer.send(...)` returns the future.
RequestSubmitOk ==
  \E r \in 1..MaxReqs :
    /\ reqs[r].pc = "submit"
    /\ reqs' = [SweepReqs(reqs) EXCEPT ![r].pc = "ack"]
    /\ UNCHANGED <<consVars, dlqVars, prodVars, service, kafka_enabled, life,
                   startupFailed, consumer_instance, owners, startCalls, loopTasks>>

\* send_event of a call: `await future` returns, send_event returns True.
RequestAcked ==
  \E r \in 1..MaxReqs :
    /\ reqs[r].pc = "ack"
    /\ reqs' = [SweepReqs(reqs) EXCEPT ![r] = BusEnd(reqs[r], "True")]
    /\ UNCHANGED <<consVars, dlqVars, prodVars, service, kafka_enabled, life,
                   startupFailed, consumer_instance, owners, startCalls, loopTasks>>

\* send_event of a call: the send or the future raises, send_event's except
\* blocks return False.
RequestSendRaise ==
  \E r \in 1..MaxReqs :
    /\ reqs[r].pc \in {"submit", "ack"}
    /\ reqs' = [SweepReqs(reqs) EXCEPT ![r] = BusEnd(reqs[r], SendFailureResult)]
    /\ UNCHANGED <<consVars, dlqVars, prodVars, service, kafka_enabled, life,
                   startupFailed, consumer_instance, owners, startCalls, loopTasks>>

\* What log_action / send_email return after the HTTP request: True on an
\* accepted status, False on another status or on httpx.RequestError; any
\* other exception is not caught.
HttpResult(outcome) ==
  IF outcome = "ok" THEN "True"
  ELSE IF outcome \in {"bad", "error"} THEN "False"
  ELSE "raised"

\* The HTTP fallback of a call ends.
HttpDone ==
  \E r \in 1..MaxReqs, outcome \in {"ok", "bad", "error", "raised"} :
    /\ reqs[r].pc = "http"
    /\ reqs' = [SweepReqs(reqs) EXCEPT ![r] =
                  [reqs[r] EXCEPT !.pc = "returned", !.http = outcome,
                                  !.result = HttpResult(outcome)]]
    /\ UNCHANGED <<consVars, dlqVars, prodVars, service, kafka_enabled, life,
                   startupFailed, consumer_instance, owners, startCalls, loopTasks>>

\* The shutdown half of the lifespan handler of a producing service, up to
\* its await: `if settings.KAFKA_ENABLE_PRODUCER:` import and await
\* close_producer(), inside a try.
ProducerShutdown ==
  /\ service = "producing"
  /\ life = "serving"
  /\ \E imported \in BOOLEAN :
       IF ~kafka_enabled \/ ~imported \/ producer_instance = 0
         THEN /\ life' = "down"
              /\ UNCHANGED <<producers, producer_instance>>
         ELSE IF StopGuard(producer_instance)
           THEN /\ producer_instance' = 0
                /\ life' = "down"
                /\ UNCHANGED producers
           ELSE /\ producers' = [producers EXCEPT ![producer_instance].client = "closing"]
                /\ life' = "shutdown"
                /\ UNCHANGED producer_instance
  /\ reqs' = SweepReqs(reqs)
  /\ UNCHANGED <<consVars, dlqVars, made, tasks, bus, win, service, kafka_enabled,
                 startupFailed, consumer_instance, owners, startCalls, loopTasks>>

\* The stop() awaited by close_producer() ends: the client's stop() returned
\* (_started = False) or raised (logged by stop()); the global is cleared.
ProducerShutdownEnd ==
  /\ service = "producing"
  /\ life = "shutdown"
  /\ \E raised \in BOOLEAN :
       producers' = [producers EXCEPT
                       ![producer_instance].client = "closed",
                       ![producer_instance].stopped = TRUE,
                       ![producer_instance].started = IF raised THEN @ ELSE FALSE]
  /\ producer_instance' = 0
  /\ life' = "down"
  /\ reqs' = SweepReqs(reqs)
  /\ UNCHANGED <<consVars, dlqVars, made, tasks, bus, win, service, kafka_enabled,
                 startupFailed, consumer_instance, owners, startCalls, loopTasks>>

\* Either kind of service, with Kafka enabled or not; the topic of a consumer
\* service holds one event at most.
ServiceSpecInit ==
  /\ ConsumerInit
  /\ Len(topic) <= 1
  /\ api = "consume"
  /\ ~dlq_handler
  /\ ~enable_auto_commit
  /\ ProducerInit
  /\ DlqIdle
  /\ service \in {"notification", "producing"}
  /\ service = "producing" => topic = <<>>
  /\ ServiceBoot
  /\ kafka_enabled \in BOOLEAN

\* The life of a service process from startup to shutdown.
ServiceNext ==
  \/ ConsumerStartup
  \/ StartConsumer
  \/ OwnerStartOk
  \/ OwnerStartFail
  \/ ConsumeEntry
  \/ RecursionOverflow
  \/ Receive
  \/ FetchStopped
  \/ FetchError
  \/ HandlerReturn
  \/ HandlerRaise
  \/ CommitOk
  \/ CommitRaise
  \/ StopBegin
  \/ StopEndOk
  \/ StopEndRaise
  \/ ProducerStartup
  \/ ProducerStartupOk
  \/ ProducerStartupRaise
  \/ Request
  \/ RequestStartOk
  \/ RequestStartRaise
  \/ RequestSubmitOk
  \/ RequestAcked
  \/ RequestSendRaise
  \/ HttpDone
  \/ ProducerShutdown
  \/ ProducerShutdownEnd

ServiceSpec == ServiceSpecInit /\ [][ServiceNext]_vars

ServiceTypeOK ==
  /\ life \in {"boot", "startup", "serving", "shutdown", "down"}
  /\ producer_instance \in 0..made
  /\ owners \in 0..1
  /\ \A r \in 1..MaxReqs :
       /\ reqs[r].pc \in {"idle", "start_wait", "submit", "ack", "http", "returned"}
       /\ reqs[r].result \in {"none", "True", "False", "raised"}

(***************************************************************************)
(* Progress of the pull-loop task                                          *)
(*                                                                         *)
(* The event loop runs every coroutine that is ready: the owner's task     *)
(* enters consume when it is scheduled or its 5 second sleep is over, a    *)
(* record that the broker holds for the open client is delivered, a getone *)
(* pending on a stopped client is woken, and the awaited handler, commit   *)
(* and dead-letter handler come back (returning or raising). Nothing makes *)
(* the broker fail, the owner stop or the process die.                     *)
(***************************************************************************)

\* A step of the owner's task that the event loop will make happen.
LoopStep ==
  \/ ConsumeEntry
  \/ RecursionOverflow
  \/ Receive
  \/ FetchStopped
  \/ HandlerReturn
  \/ HandlerRaise
  \/ CommitOk
  \/ CommitRaise
  \/ DlqReturn
  \/ DlqRaise

FairSpec == Init /\ [][Next]_vars /\ WF_vars(LoopStep)

(***************************************************************************)
(* Properties                                                              *)
(***************************************************************************)

UnitDone == unit.result \in {"ok", "raised"}
LastOff(u) == u.offs[Len(u.offs)]
ValuesAt(offs) == [i \in 1..Len(offs) |-> topic[offs[i] + 1]]
DlqFailed(u) == \E i \in 1..Len(u.dlq) : ~u.dlq[i].ok

\* A commit happens in a step: commit() is called, or the group's offset moves.
CommitEvent == runCommits' > runCommits \/ committed' # committed

\* C1: with enable_auto_commit = False, whenever commit() is called or the
\* group's offset moves, the handler invocation on the message (consume) or
\* batch (consume_batch) the loop holds has ended - it returned, or it raised
\* and the DLQ step, if a dlq_handler is registered, was taken - and every
\* value held in the in-memory batch belongs to that invocation.
C1_CommitOnlyAfterHandling ==
  [][(~enable_auto_commit /\ CommitEvent) =>
       /\ unit'.result \in {"ok", "raised"}
       /\ unit'.offs # <<>>
       /\ Range(batchOffs) \subseteq Range(unit'.offs)
       /\ (unit'.result = "raised" /\ dlq_handler) =>
            (Len(unit'.dlq) = 1 /\ pc' \notin {"dlq", "fdlq"})]_vars

C1_Witness ==
  /\ ~enable_auto_commit
  /\ dlq_handler
  /\ unit.result = "raised"
  /\ Len(unit.dlq) = 1
  /\ unit.commits = 1
  /\ pc = "fetch"
  /\ committed = LastOff(unit) + 1

\* C2 (as claimed): in consume with auto-commit disabled, a message whose
\* handler returned gets exactly one commit() call, made and finished before
\* the handler is invoked on the next message.
C2_CommitExactlyOncePerSuccess ==
  [][(api = "consume" /\ ~enable_auto_commit /\ unit.result = "ok") =>
       /\ unit'.commits <= 1
       /\ (unit'.result = "running" => unit.commits = 1)]_vars

\* C3: in consume, once the handler raised on a message and a dlq_handler is
\* registered, dlq_handler has been invoked exactly once, with that message's
\* value and the raised exception; no commit() is called before the DLQ step
\* ends and (auto-commit disabled) exactly one is called when it ends; once
\* that commit returned, the group's offset is past the message.
C3_DlqOnceThenCommit ==
  (api = "consume" /\ dlq_handler /\ unit.result = "raised") =>
    /\ Len(unit.dlq) = 1
    /\ unit.dlq[1].vals = <<topic[unit.offs[1] + 1]>>
    /\ unit.dlq[1].exc = unit.exc
    /\ unit.exc = HandlerError
    /\ (pc = "dlq" => unit.commits = 0)
    /\ (pc # "dlq" /\ ~enable_auto_commit) => unit.commits = 1
    /\ (pc \in {"fetch", "done"} /\ raisedBy = "none" /\ ~enable_auto_commit)
         => committed > unit.offs[1]

C3_Witness ==
  /\ api = "consume"
  /\ dlq_handler
  /\ ~enable_auto_commit
  /\ unit.result = "raised"
  /\ pc = "fetch"
  /\ committed = unit.offs[1] + 1

\* C4 (as claimed): dlq_handler is invoked only for a message (or batch) whose
\* handler raised, and at most once for it.
C4_DlqOnlyOnHandlerFailure ==
  /\ Len(unit.dlq) <= 1
  /\ (Len(unit.dlq) > 0 => unit.result = "raised")

\* C5: an exception of dlq_handler never leaves consume / consume_batch; in
\* the loop (auto-commit disabled) the commit() call follows the failed DLQ
\* step, and unless that commit itself raises the loop goes on to ask for the
\* next message (where it ends if the client was stopped, and fails if the
\* pull fails).
C5_DlqFailureDoesNotBlock ==
  /\ raisedBy # "dlq"
  /\ (DlqFailed(unit) /\ ~unit.final) =>
       /\ ~enable_auto_commit => unit.commits >= 1
       /\ raisedBy \in {"commit", "pull"} \/ pc \in {"commit_err", "fetch", "done"}

C5_Witness ==
  /\ DlqFailed(unit)
  /\ ~unit.final
  /\ ~enable_auto_commit
  /\ unit.result = "raised"
  /\ pc = "fetch"
  /\ committed = position
  /\ position < Len(topic)

RECURSIVE Chunks(_, _)
\* s cut into consecutive pieces of n elements, the last one shorter when
\* n does not divide the length.
Chunks(s, n) ==
  IF s = <<>> THEN <<>>
  ELSE IF Len(s) <= n THEN <<s>>
  ELSE <<SubSeq(s, 1, n)>> \o Chunks(SubSeq(s, n + 1, Len(s)), n)

RECURSIVE Flatten(_)
Flatten(ss) == IF ss = <<>> THEN <<>> ELSE Head(ss) \o Flatten(Tail(ss))

\* This consume_batch call received the whole topic and returned, with no
\* exception of the handler, the DLQ, a commit or a pull, and no record
\* discarded.
CleanBatchRun ==
  /\ api = "consume_batch"
  /\ ~enable_auto_commit
  /\ clean
  /\ raisedBy = "none"
  /\ runFrom = 0
  /\ dropped = {}

\* C6: consume_batch with batch_size = N over M queued messages and no
\* failure: when the call has received all M messages and returned, the
\* handler was invoked floor(M/N) times on N values each, in arrival order,
\* and once more on the last M mod N values when that is not zero; all along,
\* each handler invocation that ended is followed by exactly one commit() call
\* before the next invocation.
C6_BatchBoundaries ==
  CleanBatchRun =>
    /\ runCommits = Len(calls) - (IF pc \in {"handler", "fhandler"} THEN 1 ELSE 0)
    /\ (pc = "done" /\ position = Len(topic)) =>
         /\ calls = Chunks(topic, batch_size)
         /\ Len(calls) = (Len(topic) \div batch_size)
                           + (IF Len(topic) % batch_size # 0 THEN 1 ELSE 0)
         /\ \A i \in 1..(Len(topic) \div batch_size) : Len(calls[i]) = batch_size
         /\ Len(topic) % batch_size # 0 =>
              Len(calls[Len(calls)]) = Len(topic) % batch_size

C6_Witness ==
  /\ CleanBatchRun
  /\ pc = "done"
  /\ position = Len(topic)
  /\ Len(topic) > batch_size
  /\ Len(topic) % batch_size # 0
  /\ Len(calls) = 2
  /\ runCommits = 2
  /\ committed = Len(topic)

\* C7: in consume_batch, once the handler raised on a full batch: the batch
\* held batch_size values; dlq_handler was invoked exactly once, on the whole
\* batch, if one is registered, and not at all otherwise; (auto-commit
\* disabled) commit() is called exactly once, after the DLQ step, and when it
\* returned the group's offset is past the last message of the batch; the
\* in-memory batch is then empty, and no message of the failed batch is in
\* the batch accumulated afterwards.
C7_FailedBatchToDlq ==
  (api = "consume_batch" /\ unit.result = "raised" /\ ~unit.final) =>
    /\ Len(unit.vals) = batch_size
    /\ unit.vals = ValuesAt(unit.offs)
    /\ IF dlq_handler
         THEN Len(unit.dlq) = 1 /\ unit.dlq[1].vals = unit.vals
              /\ unit.dlq[1].exc = HandlerError
         ELSE unit.dlq = <<>>
    /\ (pc = "dlq" => unit.commits = 0)
    /\ (pc # "dlq" /\ ~enable_auto_commit) => unit.commits = 1
    /\ (pc \in {"fetch", "done"} /\ raisedBy = "none" /\ ~enable_auto_commit)
         => committed > LastOff(unit)
    /\ pc \notin {"handler", "dlq", "commit_err"} =>
         Range(batchOffs) \cap Range(unit.offs) = {}
    /\ pc \in {"sleep", "done"} => batch = <<>>

C7_Witness ==
  /\ api = "consume_batch"
  /\ batch_size = 2
  /\ dlq_handler
  /\ ~enable_auto_commit
  /\ unit.result = "raised"
  /\ ~unit.final
  /\ pc = "fetch"
  /\ committed = LastOff(unit) + 1
  /\ Len(batch) = 1

\* C8 (as claimed): when consume_batch has flushed the partial batch left at
\* the end of the loop (auto-commit disabled), commit() was called after the
\* handler, whether the handler returned or raised, and on a raise the batch
\* went to dlq_handler if one is registered.
C8_FinalBatchSamePath ==
  (api = "consume_batch" /\ ~enable_auto_commit /\ unit.final /\ pc = "done"
     /\ UnitDone) =>
    /\ unit.commits >= 1
    /\ (unit.result = "raised" /\ dlq_handler) => Len(unit.dlq) = 1

\* C9 (as claimed): with auto-commit disabled, every message below the
\* group's committed offset has been passed to the handler at least once.
C9_NoMessageSkipped ==
  ~enable_auto_commit => \A o \in 0..(committed - 1) : o \in handled

C16_LoopAlwaysRestarted == ~(pc = "dead" /\ ownerRunning)

(***************************************************************************)
(* Ordering and stop (specification Spec)                                  *)
(***************************************************************************)

\* The handler is invoked in this step.
InvokeStep == unit'.result = "running" /\ unit.result # "running"

Increasing(s) == \A i \in 1..(Len(s) - 1) : s[i] < s[i + 1]

\* C19: within one life of the process the handler receives the messages in
\* publish order: the payloads of an invocation are in increasing offset
\* order (event ids grow with the offset), they are the values at those
\* offsets, and they all come after every message handed over before.
C19_HandlerInPublishOrder ==
  [][(InvokeStep /\ crashes' = crashes) =>
        /\ unit'.offs # <<>>
        /\ Increasing(unit'.offs)
        /\ Increasing(unit'.vals)
        /\ unit'.vals = ValuesAt(unit'.offs)
        /\ \A o \in lifeHandled : o < unit'.offs[1]]_vars

C19_Witness ==
  /\ api = "consume_batch"
  /\ Len(calls) = 2
  /\ Len(calls[1]) = 2
  /\ calls[2][1] > calls[1][2]
  /\ unit.result = "running"

\* C20: stop() clears _running in the step that begins closing the client;
\* in single-message mode a record that arrives while _running is false is
\* not handed to the handler, no commit is made for it and consume returns;
\* with manual commits such a record stays unhandled and uncommitted.
C20_StopEndsConsume ==
  /\ [][/\ (conn = "open" /\ conn' = "closing") => ~running'
        /\ (api = "consume" /\ pc = "fetch" /\ position' = position + 1 /\ ~running) =>
              /\ pc' = "done"
              /\ unit' = unit
              /\ calls' = calls
              /\ handled' = handled
              /\ runCommits' = runCommits
              /\ committed' = committed]_vars
  /\ [](api = "consume" /\ ~enable_auto_commit =>
          \A o \in dropped : o \notin lifeHandled /\ committed <= o)

C20_Witness ==
  /\ api = "consume"
  /\ ~enable_auto_commit
  /\ dropped # {}
  /\ pc = "done"
  /\ ~running
  /\ conn \in {"closing", "closed"}
  /\ committed < position

(***************************************************************************)
(* Properties of the producer (specification ProducerSpec)                 *)
(***************************************************************************)

IsSend(c) == c.op \in {"send_event", "send_raw"}

\* Task t makes a call of operation op in this step.
Calls(t, op) ==
  /\ Free(t)
  /\ tasks'[t] # tasks[t]
  /\ tasks'[t].op = op

\* C11: send_event and send_raw on a producer that was never started, or
\* whose stop() has completed, return False without raising and nothing of
\* the call reaches the bus; when the producer never started or its stop()
\* succeeded the call returns at once, without calling the client.
C11_SendOnStoppedFailsFast ==
  \A t \in 1..MaxTasks :
    LET c == tasks[t]
    IN  (IsSend(c) /\ c.pre \in {"never", "stopped", "stop_failed"}) =>
          /\ c.pc = "returned"
          /\ c.result = "False"
          /\ ~c.acked
          /\ c.pre \in {"never", "stopped"} => ~c.submitted /\ ~c.awaited

C11_Witness ==
  \E t \in 1..MaxTasks :
    /\ IsSend(tasks[t]) /\ tasks[t].pre = "stopped" /\ tasks[t].result = "False"
    /\ tasks[t].pc = "returned"
    /\ producers[tasks[t].p].client = "closed"
    /\ bus > 0

\* C12: a send on a started producer returns True exactly when the broker
\* acknowledged the record, and False (never an exception) when the
\* submission or the wait for the acknowledgment failed.
C12_SendTrueIffAcked ==
  \A t \in 1..MaxTasks :
    LET c == tasks[t]
    IN  (IsSend(c) /\ c.pre = "started" /\ c.pc = "returned") =>
          /\ c.result \in {"True", "False"}
          /\ c.result = "True" <=> c.acked
          /\ c.acked => bus > 0

C12_Witness ==
  \E t \in 1..MaxTasks :
    /\ tasks[t].op = "send_event" /\ tasks[t].pre = "started"
    /\ tasks[t].pc = "returned" /\ tasks[t].result = "False" /\ tasks[t].awaited
    /\ producers[tasks[t].p].started
    /\ producers[tasks[t].p].client = "open"

\* C13: start() on a producer that is already started returns normally and
\* changes nothing: no client is created, the connection and _started stay.
C13_StartIdempotent ==
  [][\A t \in 1..MaxTasks :
       (Calls(t, "start") /\ producers[tasks'[t].p].started) =>
          /\ producers' = producers
          /\ made' = made
          /\ producer_instance' = producer_instance
          /\ tasks'[t].pc = "returned"
          /\ tasks'[t].result = "ok"]_vars

C13_Witness ==
  \E t \in 1..MaxTasks :
    /\ tasks[t].op = "start" /\ tasks[t].pc = "returned" /\ tasks[t].result = "ok"
    /\ ~tasks[t].awaited
    /\ producers[tasks[t].p].started
    /\ producers[tasks[t].p].client = "open"

\* C14: stop() on a producer that is not started (never started, or already
\* stopped) returns normally, calls nothing on the connection and leaves the
\* producer as it was.
C14_StopIdempotent ==
  [][\A t \in 1..MaxTasks :
       (Calls(t, "stop") /\ ~producers[tasks'[t].p].started) =>
          /\ producers' = producers
          /\ producer_instance' = producer_instance
          /\ tasks'[t].pc = "returned"
          /\ tasks'[t].result = "ok"
          /\ ~tasks'[t].awaited]_vars

C14_Witness ==
  \E t \in 1..MaxTasks :
    /\ tasks[t].op = "stop" /\ tasks[t].pc = "returned" /\ ~tasks[t].awaited
    /\ producers[tasks[t].p].stopped /\ ~producers[tasks[t].p].started
    /\ \E p \in 1..made : ~producers[p].ever

\* C15: while no close_producer() call is active, at most one KafkaProducer
\* is constructed by get_producer, at most one start is attempted, and every
\* get_producer call made in that time returns that one instance, also when
\* it runs while the creating call is suspended in start().
C15_SingletonOnce ==
  /\ win.built <= 1
  /\ win.starts <= 1
  /\ win.returned \subseteq {producer_instance}
  /\ 0 \notin win.returned

C15_Witness ==
  \E t, u \in 1..MaxTasks :
    /\ tasks[t].op = "get_producer" /\ tasks[t].pc = "start_wait" /\ tasks[t].inWin
    /\ tasks[u].op = "get_producer" /\ tasks[u].pc = "returned" /\ tasks[u].inWin
    /\ tasks[u].ret = producer_instance
    /\ producer_instance = tasks[t].p
    /\ win.built = 1

(***************************************************************************)
(* Properties of the dead-letter handlers (specification DlqSpec)          *)
(***************************************************************************)

RecordsOf(ev) == {k \in 1..Len(dlqTopic) : dlqTopic[k].original_event = ev}

\* C17: each invocation of a service's dead-letter handler constructs a fresh
\* producer that is not the singleton and starts it; records go to the DLQ
\* topic through it while it is started; if it was started, stop() has been
\* called on it when the handler returns; the singleton and the main bus are
\* not touched.
C17_DlqProducerLifecycle ==
  [][/\ (dlqPc = "idle" /\ dlqPc' = "start") =>
           /\ DlqProducerId # producer_instance
           /\ producers[DlqProducerId] = NewProducer
           /\ producers'[DlqProducerId].client = "connecting"
     /\ dlqTopic' # dlqTopic =>
           /\ producers[DlqProducerId].started
           /\ dlqTopic'[Len(dlqTopic')].topic = DlqTopicName
     /\ (dlqPc = "return" /\ dlqPc' = "idle") =>
           (producers[DlqProducerId].ever => producers[DlqProducerId].stopped)
     /\ (dlqPc # "idle" \/ dlqPc' # "idle") =>
           /\ producer_instance' = producer_instance
           /\ bus' = bus
           /\ producer_instance # 0 =>
                producers'[producer_instance] = producers[producer_instance]]_vars

C17_Witness ==
  /\ dlqPc = "return"
  /\ producers[DlqProducerId].ever
  /\ producers[DlqProducerId].stopped
  /\ ~producers[DlqProducerId].started
  /\ producer_instance = 1
  /\ producers[1].started
  /\ Len(dlqTopic) > 0

\* C18 (as claimed): once the loop has dealt with a message (or batch) whose
\* handler raised E, with no transport failure on the way, the DLQ topic
\* holds exactly one record per event, with the event, str(E) and the class
\* name of E, and the group's offset is past the message.
C18_OneDlqRecordAndCommit ==
  (/\ unit.result = "raised"
   /\ unit.exc = HandlerError
   /\ pc \in {"fetch", "done"}
   /\ raisedBy = "none"
   /\ ~dlqFault) =>
     /\ \A i \in 1..Len(unit.vals) :
          /\ Cardinality(RecordsOf(unit.vals[i])) = 1
          /\ \A k \in RecordsOf(unit.vals[i]) :
               /\ dlqTopic[k].error = "boom"
               /\ dlqTopic[k].error_type = "ValueError"
     /\ committed > LastOff(unit)

(***************************************************************************)
(* Properties of the service process (specification ServiceSpec)           *)
(***************************************************************************)

\* C21: a connection error raised by start() during startup (get_producer()
\* in a producing service, start_consumer() in a consumer service) is caught
\* by the lifespan handler: no exception leaves the handler, startup
\* completes and the service serves, and the shutdown path that follows ends
\* with the handler returned.
C21_StartupErrorTolerated ==
  /\ [](life # "crashed")
  /\ [](startupFailed => life \in {"serving", "shutdown", "down"})
  /\ [][(startupFailed /\ life = "serving" /\ life' # "serving")
          => life' \in {"shutdown", "down"}]_vars

\* The start() of the singleton producer raised during startup, the service
\* served, and the shutdown has completed.
C21_Witness ==
  /\ service = "producing"
  /\ startupFailed
  /\ made = 1
  /\ producers[1].client = "failed"
  /\ life = "down"

\* A call of the given kinds has just returned in slot r.
ReturnedReq(r, kinds) == reqs[r].kind \in kinds /\ reqs[r].pc = "returned"

\* C22: a publish helper never raises: whatever the flag, the import, the
\* event type, the producer lookup and start, the event factory and the send
\* do, it returns a boolean, True only when send_event returned True, and
\* False when the flag is off, the event type is unknown, the producer is
\* not started or an exception occurred.
C22_HelperNeverRaises ==
  \A r \in 1..MaxReqs :
    ReturnedReq(r, {"publish"}) =>
      /\ reqs[r].result \in {"True", "False"}
      /\ reqs[r].result = "True" <=> reqs[r].bus = "True"
      /\ reqs[r].bus \in {"disabled", "unknown_type", "not_started", "raised", "False"}
           => reqs[r].result = "False"
      /\ reqs[r].http = "none"

\* A helper returned False after the start() inside its get_producer() raised.
C22_Witness ==
  \E r \in 1..MaxReqs :
    /\ ReturnedReq(r, {"publish"})
    /\ reqs[r].bus = "raised"
    /\ reqs[r].result = "False"
    /\ reqs[r].p # 0
    /\ producers[reqs[r].p].client = "failed"

\* C23: log_action and send_email issue the HTTP fallback request exactly
\* when the bus path did not return success (flag off, no event_type,
\* producer not started, send_event returned False, or an exception); after
\* send_event returned True no HTTP request is made; and the call returns
\* True exactly when the bus or the HTTP channel reported success.
C23_FallbackIffBusFailed ==
  \A r \in 1..MaxReqs :
    /\ (reqs[r].kind \in {"log_action", "send_email"} /\ reqs[r].pc = "http")
         => reqs[r].bus \notin {"none", "True"}
    /\ ReturnedReq(r, {"log_action", "send_email"}) =>
         /\ reqs[r].http # "none" <=> reqs[r].bus # "True"
         /\ reqs[r].result = "True" <=> (reqs[r].bus = "True" \/ reqs[r].http = "ok")
         /\ reqs[r].result = "raised" => reqs[r].http = "raised"

\* send_event returned False to an integration client and the HTTP fallback
\* succeeded.
C23_Witness ==
  \E r \in 1..MaxReqs :
    /\ ReturnedReq(r, {"log_action", "send_email"})
    /\ reqs[r].bus = "False"
    /\ reqs[r].http = "ok"
    /\ reqs[r].result = "True"

\* The start() inside the first get_producer() raised: the global holds a
\* producer that never started.
SingletonFailed ==
  /\ producer_instance # 0
  /\ producers[producer_instance].client = "failed"
  /\ ~producers[producer_instance].started

\* C25: once start() has raised inside the first get_producer(), the global
\* keeps the unstarted instance: no later call starts it or replaces it, and
\* every publish helper returns False, until close_producer() clears the
\* global at shutdown.
C25_FailedSingletonStays ==
  [][SingletonFailed =>
       /\ \/ /\ SingletonFailed'
             /\ producer_instance' = producer_instance
             /\ made' = made
          \/ /\ producer_instance' = 0
             /\ life' = "down"
       /\ \A r \in 1..MaxReqs :
            (reqs'[r].kind = "publish" /\ reqs'[r].pc = "returned")
              => reqs'[r].result = "False"]_vars

\* A helper found the failed singleton and returned False.
C25_Witness ==
  /\ SingletonFailed
  /\ \E r \in 1..MaxReqs :
       /\ ReturnedReq(r, {"publish"})
       /\ reqs[r].bus = "not_started"
       /\ reqs[r].result = "False"

(***************************************************************************)
(* The singleton's readiness (specification ProducerSpec)                  *)
(***************************************************************************)

\* C24: every KafkaProducer that get_producer() returns is started: when a
\* call returns normally, to a caller that entered while another caller's
\* first get_producer() was suspended in start() as well, the instance it
\* returns has is_started true.
C24_ReturnedProducerStarted ==
  \A t \in 1..MaxTasks :
    (/\ tasks[t].op = "get_producer"
     /\ tasks[t].pc = "returned"
     /\ tasks[t].result = "ok"
     /\ tasks[t].ret # 0)
      => producers[tasks[t].ret].started

(***************************************************************************)
(* Flags of the consumer (specification Spec)                              *)
(***************************************************************************)

\* C27: after stop() has returned on a started instance, the instance is
\* stopped (is_started false), also when closing the connection raised.
C27_StoppedAfterStop ==
  (stopPc = "done" /\ conn = "closed") => ~started

\* C28: is_running is true only while a consume / consume_batch call is
\* executing: once the call has ended, by the end of the iteration or by a
\* raised pull-loop error, is_running is false.
C28_RunningOnlyInLoop ==
  pc \in {"sleep", "done", "dead"} => ~running

(***************************************************************************)
(* One pull loop per process (specification ServiceSpec)                   *)
(***************************************************************************)

\* The owner's task is inside a consume / consume_batch call.
InConsume ==
  pc \in {"fetch", "handler", "commit_ok", "dlq", "commit_err", "fhandler", "fcommit",
          "fdlq"}

\* C30: at most one pull loop is active in the process: however often
\* start_consumer() is called, also while the first call is suspended in
\* start(), one owner is constructed and one background task is created, and
\* a restart by the supervision loop begins a consume call only after the
\* previous one has ended.
C30_SinglePullLoop ==
  /\ [](owners <= 1 /\ loopTasks <= 1)
  /\ [][(startCalls' > startCalls /\ startCalls > 0)
          => (owners' = owners /\ loopTasks' = loopTasks
              /\ consumer_instance' = consumer_instance)]_vars
  /\ [][depth' > depth => (~InConsume /\ raisedBy # "none")]_vars

\* start_consumer() was called again, one while the first call was suspended
\* in start(), and the supervision loop has restarted the consume call once.
C30_Witness ==
  /\ startCalls = MaxStartCalls
  /\ owners = 1
  /\ loopTasks = 1
  /\ depth > 0
  /\ InConsume

(***************************************************************************)
(* Progress (specification FairSpec)                                       *)
(***************************************************************************)

\* The consumer keeps running: the owner has not stopped it, the client is
\* connected and the owner's task is alive.
KeepsRunning == ownerRunning /\ conn = "open" /\ pc \notin {"done", "dead"}

\* C26: every message consume_batch has received is eventually passed to
\* the handler while the consumer keeps running: a partial batch is handled
\* even if no further message arrives on the topic. (A batch discarded by a
\* pull error is not counted against this statement.)
C26_BatchedEventuallyHandled ==
  \A o \in 0..(MaxMsgs - 1) :
    (o \in Range(batchOffs) /\ KeepsRunning)
      ~> (o \in handled \/ o \in dropped \/ ~KeepsRunning)

\* The owner's stop() has been requested.
StopRequested == stopPc # "idle"

\* C29: after the owner's stop() has been requested the supervision loop
\* ends and handles nothing again: an error that leaves the pull loop is not
\* followed by a restart, a consume call re-entered after the backoff
\* returns without invoking the handler, and the task eventually terminates.
C29_StopEndsSupervision ==
  /\ [][(StopRequested /\ pc' = "sleep") => pc = "sleep"]_vars
  /\ [][(StopRequested /\ pc \in {"sleep", "done", "dead"})
          => (handled' = handled /\ Len(calls') <= Len(calls) /\ ~InConsume')]_vars
  /\ (StopRequested ~> pc \in {"none", "done", "dead"})

\* The stop came during the backoff after a pull error; the consume call
\* re-entered after the sleep returned at its guard.
C29_Witness ==
  /\ stopPc = "done"
  /\ ~started
  /\ depth = 1
  /\ raisedBy = "pull"
  /\ pc = "done"

====
